---- MODULE Spec2Model ----
(***************************************************************************)
(* Model of the Zendesk connector (app/connectors/zendesk_connector.py)    *)
(* and of the indexing-timestamp updater (app/services/connector_service). *)
(*                                                                         *)
(* Spec        : one ZendeskConnector, one call of get_tickets,            *)
(*               get_help_center_articles or test_connection, run step by  *)
(*               step against an upstream API that decides, at every pull, *)
(*               whether it yields an item, ends, or raises.               *)
(* SpecUpdater : two tasks, each one call of update_connector_last_indexed *)
(*               with its own session, interleaved at the awaits, against  *)
(*               one persisted connector table and one clock.              *)
(*                                                                         *)
(* Python values: an optional value is None (the empty tuple) or Some(x)   *)
(* (the one-element tuple); a str is a tuple of one-character strings.     *)
(***************************************************************************)
EXTENDS Integers, Sequences, FiniteSets, TLC

VARIABLES
    op,         \* the coroutine running on the connector ("idle" before a call)
    pc,         \* its position
    limit,      \* its limit argument
    long,       \* the upstream holds a long stream of plain items (see Upstream)
    count,      \* local count
    items,      \* local tickets / articles list
    ticket,     \* loop variable of the ticket loop (None outside an iteration)
    comments,   \* local comments list of the iteration
    result,     \* the value returned to the caller (NoResult: nothing returned)
    up,         \* history: what the upstream yielded so far, item by item
    pulls,      \* history: next() calls made on the ticket / article stream
    fetches,    \* history: comment listings requested
    sleeps,     \* history: pacing delays awaited
    streamErr,  \* history: a next() on the ticket / article stream raised
    me,         \* history: outcome of client.users.me()
    db,         \* persisted search_source_connectors rows
    clock,      \* datetime.now()
    upc,        \* per task: position in update_connector_last_indexed
    uarg,       \* per task: connector_id
    pending,    \* per task: the session's uncommitted last_indexed_at
    stamped,    \* per task, history: the timestamp the task assigned
    loaded,     \* per task, history: outcome of the select
    commits,    \* per task, history: session.commit() calls issued
    rollbacks,  \* per task, history: session.rollback() calls issued
    faults,     \* per task, history: the session calls that raised
    commitLog   \* history: the commits that reached the store, in order

fvars == <<op, pc, limit, long, count, items, ticket, comments, result, up,
           pulls, fetches, sleeps, streamErr, me>>
uvars == <<db, clock, upc, uarg, pending, stamped, loaded, commits, rollbacks,
           faults, commitLog>>
vars == <<fvars, uvars>>

---------------------------------------------------------------------------
(* Bounds of the model *)

\* the rich ticket stream yields at most MaxTickets tickets
MaxTickets == 2
\* the upstream yields at most MaxComments comments during one call
MaxComments == 2
\* the rich article stream yields at most MaxArticles articles
MaxArticles == 2
\* the small limits tried are 0..MaxLimit
MaxLimit == 2
\* the clock runs from 1 to MaxClock
MaxClock == 3

\* "if count % 100 == 0: await asyncio.sleep(1)"
PaceEvery == 100

\* a long stream is just long enough to pass the pacing point and go on
LongLen == PaceEvery + 1

Limits == (0 .. MaxLimit) \cup {PaceEvery}

---------------------------------------------------------------------------
(* Python values *)

None == <<>>
Some(x) == <<x>>
IsNone(o) == Len(o) = 0
\* the caller got no value back
NoResult == <<>>
Raised == "raised"
Returned == "returned"

Min(a, b) == IF a <= b THEN a ELSE b

\* str.isspace of one character
IsSpace(c) == c \in {" ", "\t", "\n"}

RECURSIVE LStrip(_)
LStrip(s) == IF Len(s) > 0 /\ IsSpace(Head(s)) THEN LStrip(Tail(s)) ELSE s

RECURSIVE RStrip(_)
RStrip(s) ==
    IF Len(s) > 0 /\ IsSpace(s[Len(s)]) THEN RStrip(SubSeq(s, 1, Len(s) - 1))
    ELSE s

\* str.strip()
Strip(s) == RStrip(LStrip(s))

\* truth value of an optional str: None and '' are falsy
Truthy(o) == ~IsNone(o) /\ Len(o[1]) > 0

\* "x or ''" / "x or []" on an optional str or list
OrEmpty(o) == IF Truthy(o) THEN o[1] ELSE <<>>

\* datetime.isoformat(): the rendering of an instant, not the instant
IsoFormat(t) == <<"iso8601", t>>

\* "x.isoformat() if x else None"
IsoOrNone(o) == IF IsNone(o) THEN None ELSE Some(IsoFormat(o[1]))

Subdomain == <<"a", "c", "m", "e">>

---------------------------------------------------------------------------
(* The upstream API, as the connector sees it through the SDK *)

\* A ticket as the SDK presents it: either every optional attribute is absent
\* or every one is set.
TicketShapes ==
    { [subject |-> None, description |-> None, status |-> "open",
       priority |-> None, requester_id |-> 7, assignee_id |-> None,
       group_id |-> None, created_at |-> None, updated_at |-> None,
       tags |-> None],
      [subject |-> Some(<<"s">>), description |-> Some(<<"d">>),
       status |-> "pending", priority |-> Some("high"), requester_id |-> 7,
       assignee_id |-> Some(8), group_id |-> Some(9), created_at |-> Some(1),
       updated_at |-> Some(2), tags |-> Some(<<"vip">>)] }

\* the tickets of a long stream all look the same
PlainTicket ==
    [subject |-> Some(<<"s">>), description |-> Some(<<"d">>),
     status |-> "pending", priority |-> Some("high"), requester_id |-> 7,
     assignee_id |-> Some(8), group_id |-> Some(9), created_at |-> Some(1),
     updated_at |-> Some(2), tags |-> Some(<<"vip">>)]

\* A comment as the SDK presents it: body absent, empty, whitespace-only,
\* or with text (with and without surrounding whitespace).
CommentInputs ==
    { [author_id |-> 7, body |-> None, created_at |-> None, public |-> TRUE],
      [author_id |-> 7, body |-> Some(<<>>), created_at |-> Some(1),
       public |-> TRUE],
      [author_id |-> 8, body |-> Some(<<" ", "\n">>), created_at |-> Some(1),
       public |-> FALSE],
      [author_id |-> 8, body |-> Some(<<" ", "a", " ">>),
       created_at |-> Some(2), public |-> FALSE],
      [author_id |-> 7, body |-> Some(<<"b">>), created_at |-> None,
       public |-> TRUE] }

ArticleShapes ==
    { [title |-> None, body |-> None, section_id |-> 3, author_id |-> 7,
       created_at |-> None, updated_at |-> None, draft |-> TRUE,
       promoted |-> FALSE, label_names |-> None, locale |-> "en",
       html_url |-> <<"u">>],
      [title |-> Some(<<"t">>), body |-> Some(<<"b">>), section_id |-> 3,
       author_id |-> 8, created_at |-> Some(1), updated_at |-> Some(2),
       draft |-> FALSE, promoted |-> TRUE, label_names |-> Some(<<"faq">>),
       locale |-> "en", html_url |-> <<"v">>] }

PlainArticle ==
    [title |-> Some(<<"t">>), body |-> Some(<<"b">>), section_id |-> 3,
     author_id |-> 8, created_at |-> Some(1), updated_at |-> Some(2),
     draft |-> FALSE, promoted |-> TRUE, label_names |-> Some(<<"faq">>),
     locale |-> "en", html_url |-> <<"v">>]

MeOutcomes == {"user", "none", "raise"}

\* comments the upstream yielded so far during the call
RECURSIVE CommentsYielded(_)
CommentsYielded(h) ==
    IF Len(h) = 0 THEN 0 ELSE Len(Head(h).yielded) + CommentsYielded(Tail(h))

---------------------------------------------------------------------------
(* ZendeskConnector.get_tickets *)

\* "if count >= limit: break", with the off-by-one a slip would make
LimitReachedLate(c, l) == c > l

\* "if count >= limit: break"
LimitReached(c, l) == c >= l

\* the comment filter without the strip()
KeepCommentNoStrip(c) == Truthy(c.body)

\* "if comment.body and comment.body.strip()"
KeepComment(c) == Truthy(c.body) /\ Len(Strip(c.body[1])) > 0

\* the dict appended for a comment
CommentData(c) ==
    [author |-> c.author_id, body |-> c.body[1],
     created_at |-> IsoOrNone(c.created_at), public |-> c.public]

\* the ticket_data dict
TicketData(t, cs) ==
    [id |-> t.id, subject |-> OrEmpty(t.subject),
     description |-> OrEmpty(t.description), status |-> t.status,
     priority |-> t.priority, requester_id |-> t.requester_id,
     assignee_id |-> t.assignee_id, group_id |-> t.group_id,
     created_at |-> IsoOrNone(t.created_at),
     updated_at |-> IsoOrNone(t.updated_at), tags |-> OrEmpty(t.tags),
     comments |-> cs,
     url |-> <<"https://", Subdomain, ".zendesk.com/agent/tickets/", t.id>>,
     type |-> "ticket"]

\* an outer handler that would swallow the error and return what it has
OnStreamErrorSwallow(partial) == [pc |-> Returned, result |-> Some(partial)]

\* "except Exception as e: logger.error(...); raise"
OnStreamError(partial) == [pc |-> Raised, result |-> NoResult]

\* "logger.info(...); return tickets"
OnLoopExit(list) == [pc |-> Returned, result |-> Some(list)]

\* after "count += 1": "if count % 100 == 0: await asyncio.sleep(1)"
AfterCount(c) == IF c % PaceEvery = 0 THEN "sleep" ELSE "next"

\* the caller awaits get_tickets(limit)
CallGetTickets(l, lg) ==
    /\ op = "idle"
    /\ op' = "get_tickets"
    /\ pc' = "export"
    /\ limit' = l
    /\ long' = lg
    /\ UNCHANGED <<count, items, ticket, comments, result, up, pulls, fetches,
                   sleeps, streamErr, me>>
    /\ UNCHANGED uvars

\* "ticket_generator = self.client.search_export(...)" returns; "count = 0"
SearchExport ==
    /\ op = "get_tickets" /\ pc = "export"
    /\ pc' = "next"
    /\ count' = 0
    /\ UNCHANGED <<op, limit, long, items, ticket, comments, result, up, pulls,
                   fetches, sleeps, streamErr, me>>
    /\ UNCHANGED uvars

\* search_export(...) raises: the outer handler logs and re-raises
SearchExportRaises ==
    /\ op = "get_tickets" /\ pc = "export"
    /\ pc' = OnStreamError(items).pc
    /\ result' = OnStreamError(items).result
    /\ UNCHANGED <<op, limit, long, count, items, ticket, comments, up, pulls,
                   fetches, sleeps, streamErr, me>>
    /\ UNCHANGED uvars

\* "for ticket in ticket_generator": the stream yields t; then the limit test
TicketYielded(t) ==
    /\ op = "get_tickets" /\ pc = "next"
    /\ Len(up) < (IF long THEN LongLen ELSE MaxTickets)
    /\ pulls' = pulls + 1
    /\ LET tk == [id |-> Len(up) + 1] @@ t IN
        /\ up' = Append(up, [ticket |-> tk, yielded |-> <<>>, failed |-> FALSE])
        /\ IF LimitReached(count, limit)
           THEN /\ pc' = OnLoopExit(items).pc
                /\ result' = OnLoopExit(items).result
                /\ UNCHANGED <<ticket, comments, fetches>>
           ELSE /\ pc' = "comments"
                /\ ticket' = Some(tk)
                /\ comments' = <<>>
                /\ fetches' = fetches + 1
                /\ UNCHANGED result
    /\ UNCHANGED <<op, limit, long, count, items, sleeps, streamErr, me>>
    /\ UNCHANGED uvars

\* the stream is exhausted: the loop ends, the list is returned
TicketStreamEnds ==
    /\ op = "get_tickets" /\ pc = "next"
    /\ pulls' = pulls + 1
    /\ pc' = OnLoopExit(items).pc
    /\ result' = OnLoopExit(items).result
    /\ UNCHANGED <<op, limit, long, count, items, ticket, comments, up, fetches,
                   sleeps, streamErr, me>>
    /\ UNCHANGED uvars

\* next() on the stream raises: the outer handler logs and re-raises
TicketStreamRaises ==
    /\ op = "get_tickets" /\ pc = "next"
    /\ pulls' = pulls + 1
    /\ streamErr' = TRUE
    /\ pc' = OnStreamError(items).pc
    /\ result' = OnStreamError(items).result
    /\ UNCHANGED <<op, limit, long, count, items, ticket, comments, up, fetches,
                   sleeps, me>>
    /\ UNCHANGED uvars

\* "for comment in self.client.tickets.comments(ticket.id)": the listing yields c
CommentYielded(c) ==
    /\ op = "get_tickets" /\ pc = "comments"
    /\ ~long
    /\ CommentsYielded(up) < MaxComments
    /\ up' = [up EXCEPT ![Len(up)].yielded = Append(@, c)]
    /\ comments' = IF KeepComment(c) THEN Append(comments, CommentData(c))
                   ELSE comments
    /\ UNCHANGED <<op, pc, limit, long, count, items, ticket, result, pulls,
                   fetches, sleeps, streamErr, me>>
    /\ UNCHANGED uvars

\* lines 69-91: ticket_data is built and appended, count += 1, pacing test
Collect ==
    /\ items' = Append(items, TicketData(ticket[1], comments))
    /\ count' = count + 1
    /\ pc' = AfterCount(count + 1)
    /\ ticket' = None
    /\ comments' = <<>>

\* the comment listing is exhausted
CommentsEnd ==
    /\ op = "get_tickets" /\ pc = "comments"
    /\ Collect
    /\ UNCHANGED <<op, limit, long, result, up, pulls, fetches, sleeps,
                   streamErr, me>>
    /\ UNCHANGED uvars

\* the comment listing raises (at the request or at a later page): the inner
\* handler logs a warning and the iteration goes on with comments as it stands
CommentsRaise ==
    /\ op = "get_tickets" /\ pc = "comments"
    /\ ~long
    /\ up' = [up EXCEPT ![Len(up)].failed = TRUE]
    /\ Collect
    /\ UNCHANGED <<op, limit, long, result, pulls, fetches, sleeps, streamErr,
                   me>>
    /\ UNCHANGED uvars

\* "await asyncio.sleep(1)" completes (both loops)
Sleep ==
    /\ op \in {"get_tickets", "get_help_center_articles"} /\ pc = "sleep"
    /\ pc' = "next"
    /\ sleeps' = sleeps + 1
    /\ UNCHANGED <<op, limit, long, count, items, ticket, comments, result, up,
                   pulls, fetches, streamErr, me>>
    /\ UNCHANGED uvars

---------------------------------------------------------------------------
(* ZendeskConnector.get_help_center_articles *)

\* an article_data dict carrying the ticket discriminator
ArticleDataAsTicket(a) ==
    [id |-> a.id, title |-> OrEmpty(a.title), body |-> OrEmpty(a.body),
     section_id |-> a.section_id, author_id |-> a.author_id,
     created_at |-> IsoOrNone(a.created_at),
     updated_at |-> IsoOrNone(a.updated_at), draft |-> a.draft,
     promoted |-> a.promoted, label_names |-> OrEmpty(a.label_names),
     locale |-> a.locale, url |-> a.html_url, type |-> "ticket"]

\* the article_data dict
ArticleData(a) ==
    [id |-> a.id, title |-> OrEmpty(a.title), body |-> OrEmpty(a.body),
     section_id |-> a.section_id, author_id |-> a.author_id,
     created_at |-> IsoOrNone(a.created_at),
     updated_at |-> IsoOrNone(a.updated_at), draft |-> a.draft,
     promoted |-> a.promoted, label_names |-> OrEmpty(a.label_names),
     locale |-> a.locale, url |-> a.html_url, type |-> "article"]

\* the caller awaits get_help_center_articles(limit); "count = 0"
CallGetArticles(l, lg) ==
    /\ op = "idle"
    /\ op' = "get_help_center_articles"
    /\ pc' = "next"
    /\ limit' = l
    /\ long' = lg
    /\ count' = 0
    /\ UNCHANGED <<items, ticket, comments, result, up, pulls, fetches, sleeps,
                   streamErr, me>>
    /\ UNCHANGED uvars

\* "for article in self.client.help_center.articles()": the stream yields a;
\* the limit test; article_data is appended, count += 1, pacing test
ArticleYielded(a) ==
    /\ op = "get_help_center_articles" /\ pc = "next"
    /\ Len(up) < (IF long THEN LongLen ELSE MaxArticles)
    /\ pulls' = pulls + 1
    /\ LET ar == [id |-> Len(up) + 1] @@ a IN
        /\ up' = Append(up, ar)
        /\ IF LimitReached(count, limit)
           THEN /\ pc' = OnLoopExit(items).pc
                /\ result' = OnLoopExit(items).result
                /\ UNCHANGED <<items, count>>
           ELSE /\ items' = Append(items, ArticleData(ar))
                /\ count' = count + 1
                /\ pc' = AfterCount(count + 1)
                /\ UNCHANGED result
    /\ UNCHANGED <<op, limit, long, ticket, comments, fetches, sleeps,
                   streamErr, me>>
    /\ UNCHANGED uvars

\* the stream is exhausted: the loop ends, the list is returned
ArticleStreamEnds ==
    /\ op = "get_help_center_articles" /\ pc = "next"
    /\ pulls' = pulls + 1
    /\ pc' = OnLoopExit(items).pc
    /\ result' = OnLoopExit(items).result
    /\ UNCHANGED <<op, limit, long, count, items, ticket, comments, up, fetches,
                   sleeps, streamErr, me>>
    /\ UNCHANGED uvars

\* the articles() call or a next() on it raises: logged and re-raised
ArticleStreamRaises ==
    /\ op = "get_help_center_articles" /\ pc = "next"
    /\ pulls' = pulls + 1
    /\ streamErr' = TRUE
    /\ pc' = OnStreamError(items).pc
    /\ result' = OnStreamError(items).result
    /\ UNCHANGED <<op, limit, long, count, items, ticket, comments, up, fetches,
                   sleeps, me>>
    /\ UNCHANGED uvars

---------------------------------------------------------------------------
(* ZendeskConnector.test_connection *)

\* a test that takes any answer, a null user included, for a connection
TestResultAnyAnswer(outcome) == outcome # "raise"

\* "user = self.client.users.me(); return user is not None"
\* "except Exception as e: logger.error(...); return False"
TestResult(outcome) ==
    IF outcome = "raise" THEN FALSE ELSE outcome # "none"

\* the caller awaits test_connection()
CallTestConnection ==
    /\ op = "idle"
    /\ op' = "test_connection"
    /\ pc' = "me"
    /\ UNCHANGED <<limit, long, count, items, ticket, comments, result, up,
                   pulls, fetches, sleeps, streamErr, me>>
    /\ UNCHANGED uvars

\* client.users.me() answers with a user, with nothing, or raises
UsersMe(outcome) ==
    /\ op = "test_connection" /\ pc = "me"
    /\ me' = outcome
    /\ pc' = Returned
    /\ result' = Some(TestResult(outcome))
    /\ UNCHANGED <<op, limit, long, count, items, ticket, comments, up, pulls,
                   fetches, sleeps, streamErr>>
    /\ UNCHANGED uvars

---------------------------------------------------------------------------
(* update_connector_last_indexed *)

\* the tasks that call the updater, each with a session of its own
Tasks == {"A", "B"}

\* ids of the persisted connectors, and the ids callers pass
ConnectorIds == {1, 2}
ArgIds == {1, 2, 3}

\* the rows before any call; ZENDESK_CONNECTOR is the value the migration adds
InitialDb ==
    [id \in ConnectorIds |->
        [last_indexed_at |-> None, connector_type |-> "ZENDESK_CONNECTOR",
         name |-> <<"z", id>>]]

\* a lookup that takes a missing row for an error (scalars().one())
AfterSelectStrict(found) == IF found THEN "commit" ELSE "rollback"

\* "connector = result.scalars().first(); if connector: ..." and the fall
\* through to the end of the function when there is none
AfterSelect(found) == IF found THEN "commit" ELSE Returned

\* a write that keeps the newer of the stored and the assigned timestamp
CommitWriteNewest(row, ts) ==
    IF ~IsNone(row.last_indexed_at) /\ row.last_indexed_at[1] > ts THEN row
    ELSE [row EXCEPT !.last_indexed_at = Some(ts)]

\* the UPDATE the commit flushes: the one attribute the session changed
CommitWrite(row, ts) == [row EXCEPT !.last_indexed_at = Some(ts)]

\* a task awaits update_connector_last_indexed(session, id)
UCall(p, id) ==
    /\ upc[p] = "idle"
    /\ upc' = [upc EXCEPT ![p] = "select"]
    /\ uarg' = [uarg EXCEPT ![p] = id]
    /\ UNCHANGED <<db, clock, pending, stamped, loaded, commits, rollbacks,
                   faults, commitLog>>
    /\ UNCHANGED fvars

\* "await session.execute(select(...))" returns; first(); when a row is found,
\* "connector.last_indexed_at = datetime.now()" follows with no await between
USelect(p) ==
    /\ upc[p] = "select"
    /\ LET found == uarg[p] \in DOMAIN db IN
        /\ loaded' = [loaded EXCEPT ![p] = IF found THEN "found" ELSE "missing"]
        /\ upc' = [upc EXCEPT ![p] = AfterSelect(found)]
        /\ pending' = [pending EXCEPT ![p] = IF found THEN Some(clock) ELSE None]
        /\ stamped' = [stamped EXCEPT ![p] = IF found THEN Some(clock) ELSE None]
    /\ UNCHANGED <<db, clock, uarg, commits, rollbacks, faults, commitLog>>
    /\ UNCHANGED fvars

\* session.execute raises: the handler logs and goes on to the rollback
USelectRaises(p) ==
    /\ upc[p] = "select"
    /\ loaded' = [loaded EXCEPT ![p] = "error"]
    /\ faults' = [faults EXCEPT ![p] = @ \cup {"select"}]
    /\ upc' = [upc EXCEPT ![p] = "rollback"]
    /\ UNCHANGED <<db, clock, uarg, pending, stamped, commits, rollbacks,
                   commitLog>>
    /\ UNCHANGED fvars

\* "await session.commit()" succeeds; logger.info; the function returns
UCommit(p) ==
    /\ upc[p] = "commit"
    /\ commits' = [commits EXCEPT ![p] = @ + 1]
    /\ IF uarg[p] \in DOMAIN db
       THEN db' = [db EXCEPT ![uarg[p]] = CommitWrite(@, pending[p][1])]
       ELSE db' = db
    /\ commitLog' = Append(commitLog,
                           [task |-> p, id |-> uarg[p], ts |-> pending[p][1]])
    /\ pending' = [pending EXCEPT ![p] = None]
    /\ upc' = [upc EXCEPT ![p] = Returned]
    /\ UNCHANGED <<clock, uarg, stamped, loaded, rollbacks, faults>>
    /\ UNCHANGED fvars

\* session.commit() raises, nothing reaches the store: handler, then rollback
UCommitRaises(p) ==
    /\ upc[p] = "commit"
    /\ commits' = [commits EXCEPT ![p] = @ + 1]
    /\ faults' = [faults EXCEPT ![p] = @ \cup {"commit"}]
    /\ upc' = [upc EXCEPT ![p] = "rollback"]
    /\ UNCHANGED <<db, clock, uarg, pending, stamped, loaded, rollbacks,
                   commitLog>>
    /\ UNCHANGED fvars

\* "await session.rollback()" in the handler succeeds: the function returns
URollback(p) ==
    /\ upc[p] = "rollback"
    /\ rollbacks' = [rollbacks EXCEPT ![p] = @ + 1]
    /\ pending' = [pending EXCEPT ![p] = None]
    /\ upc' = [upc EXCEPT ![p] = Returned]
    /\ UNCHANGED <<db, clock, uarg, stamped, loaded, commits, faults,
                   commitLog>>
    /\ UNCHANGED fvars

\* session.rollback() raises inside the handler: nothing catches it
URollbackRaises(p) ==
    /\ upc[p] = "rollback"
    /\ rollbacks' = [rollbacks EXCEPT ![p] = @ + 1]
    /\ faults' = [faults EXCEPT ![p] = @ \cup {"rollback"}]
    /\ upc' = [upc EXCEPT ![p] = Raised]
    /\ UNCHANGED <<db, clock, uarg, pending, stamped, loaded, commits,
                   commitLog>>
    /\ UNCHANGED fvars

\* time passes
Tick ==
    /\ clock < MaxClock
    /\ clock' = clock + 1
    /\ UNCHANGED <<db, upc, uarg, pending, stamped, loaded, commits, rollbacks,
                   faults, commitLog>>
    /\ UNCHANGED fvars

---------------------------------------------------------------------------
(* The two systems *)

Init ==
    /\ op = "idle"
    /\ pc = "idle"
    /\ limit = 0
    /\ long = FALSE
    /\ count = 0
    /\ items = <<>>
    /\ ticket = None
    /\ comments = <<>>
    /\ result = NoResult
    /\ up = <<>>
    /\ pulls = 0
    /\ fetches = 0
    /\ sleeps = 0
    /\ streamErr = FALSE
    /\ me = "unasked"
    /\ db = InitialDb
    /\ clock = 1
    /\ upc = [p \in Tasks |-> "idle"]
    /\ uarg = [p \in Tasks |-> 0]
    /\ pending = [p \in Tasks |-> None]
    /\ stamped = [p \in Tasks |-> None]
    /\ loaded = [p \in Tasks |-> "unasked"]
    /\ commits = [p \in Tasks |-> 0]
    /\ rollbacks = [p \in Tasks |-> 0]
    /\ faults = [p \in Tasks |-> {}]
    /\ commitLog = <<>>

Next ==
    \/ \E l \in Limits, lg \in BOOLEAN : CallGetTickets(l, lg)
    \/ SearchExport
    \/ SearchExportRaises
    \/ \E t \in (IF long THEN {PlainTicket} ELSE TicketShapes) : TicketYielded(t)
    \/ TicketStreamEnds
    \/ TicketStreamRaises
    \/ \E c \in CommentInputs : CommentYielded(c)
    \/ CommentsEnd
    \/ CommentsRaise
    \/ Sleep
    \/ \E l \in Limits, lg \in BOOLEAN : CallGetArticles(l, lg)
    \/ \E a \in (IF long THEN {PlainArticle} ELSE ArticleShapes) : ArticleYielded(a)
    \/ ArticleStreamEnds
    \/ ArticleStreamRaises
    \/ CallTestConnection
    \/ \E o \in MeOutcomes : UsersMe(o)

Spec == Init /\ [][Next]_vars

UNext ==
    \/ \E p \in Tasks, id \in ArgIds : UCall(p, id)
    \/ \E p \in Tasks : USelect(p)
    \/ \E p \in Tasks : USelectRaises(p)
    \/ \E p \in Tasks : UCommit(p)
    \/ \E p \in Tasks : UCommitRaises(p)
    \/ \E p \in Tasks : URollback(p)
    \/ \E p \in Tasks : URollbackRaises(p)
    \/ Tick

SpecUpdater == Init /\ [][UNext]_vars

---------------------------------------------------------------------------
(* What the claims compare the program with *)

\* a body with at least one character that is not whitespace
NonBlank(c) ==
    /\ ~IsNone(c.body)
    /\ \E k \in 1 .. Len(c.body[1]) : ~IsSpace(c.body[1][k])

\* the record expected for an upstream comment
ExpectedComment(c) ==
    [author |-> c.author_id, body |-> c.body[1],
     created_at |-> IF IsNone(c.created_at) THEN None
                    ELSE Some(<<"iso8601", c.created_at[1]>>),
     public |-> c.public]

\* the records expected for the comments a listing yielded: the non-blank
\* ones, in the order yielded
RECURSIVE ExpectedComments(_)
ExpectedComments(cs) ==
    IF Len(cs) = 0 THEN <<>>
    ELSE IF NonBlank(Head(cs))
         THEN <<ExpectedComment(Head(cs))>> \o ExpectedComments(Tail(cs))
         ELSE ExpectedComments(Tail(cs))

\* the record expected for an upstream article
ExpectedArticle(a) ==
    [id |-> a.id,
     title |-> IF IsNone(a.title) THEN <<>> ELSE a.title[1],
     body |-> IF IsNone(a.body) THEN <<>> ELSE a.body[1],
     section_id |-> a.section_id, author_id |-> a.author_id,
     created_at |-> IF IsNone(a.created_at) THEN None
                    ELSE Some(<<"iso8601", a.created_at[1]>>),
     updated_at |-> IF IsNone(a.updated_at) THEN None
                    ELSE Some(<<"iso8601", a.updated_at[1]>>),
     draft |-> a.draft, promoted |-> a.promoted,
     label_names |-> IF IsNone(a.label_names) THEN <<>> ELSE a.label_names[1],
     locale |-> a.locale, url |-> a.html_url, type |-> "article"]

\* the commits of the log that wrote connector id
CommitsOn(id) == SelectSeq(commitLog, LAMBDA e : e.id = id)

\* the commits of the log that task p made
CommitsBy(p) == SelectSeq(commitLog, LAMBDA e : e.task = p)

---------------------------------------------------------------------------
(* C1 *)

\* C1: when get_tickets returns, there is a record for each of the first
\* min(limit, yielded) tickets of the stream; the record of a ticket whose
\* comment listing raised (at the request or after some comments were
\* yielded) has an empty comments list, and the record of every other ticket
\* has that ticket's own non-blank comments.
C1_FailedListingGivesEmptyComments ==
    (op = "get_tickets" /\ pc = Returned) =>
        /\ Len(result[1]) = Min(limit, Len(up))
        /\ \A i \in 1 .. Len(result[1]) :
            /\ result[1][i].id = up[i].ticket.id
            /\ up[i].failed => result[1][i].comments = <<>>
            /\ ~up[i].failed =>
                   result[1][i].comments = ExpectedComments(up[i].yielded)

---------------------------------------------------------------------------
(* C2 *)

\* C2: once a next() on the ticket stream has raised, at whatever pull,
\* get_tickets has raised to its caller, has returned no list, and the
\* raising pull is the last one made on the stream (no retry).
C2_StreamErrorPropagates ==
    (op = "get_tickets" /\ streamErr) =>
        /\ pc = Raised
        /\ result = NoResult
        /\ pulls = Len(up) + 1

\* C2 witness: the stream raised after a ticket had been collected
C2_Witness ==
    /\ op = "get_tickets" /\ streamErr /\ pc = Raised
    /\ Len(items) >= 1

---------------------------------------------------------------------------
(* C3 *)

\* C3: in every state of get_tickets the collected tickets are count many and
\* at most limit, and the list returned has at most limit records.
C3_AtMostLimit ==
    op = "get_tickets" =>
        /\ Len(items) <= limit
        /\ count = Len(items)
        /\ pc = Returned => Len(result[1]) <= limit

\* C3 witness: the stream yielded more tickets than the limit and the call
\* returned exactly limit of them
C3_Witness ==
    /\ op = "get_tickets" /\ pc = Returned
    /\ limit >= 1
    /\ Len(up) > limit
    /\ Len(result[1]) = limit

---------------------------------------------------------------------------
(* C6 *)

\* C6: test_connection never raises; what it returns is true exactly when
\* users.me() answered with a user, false when it answered with nothing or
\* raised.
C6_TestConnectionIsTotal ==
    op = "test_connection" =>
        /\ pc # Raised
        /\ pc = Returned =>
            /\ result = Some(me = "user")
            /\ me \in {"none", "raise"} => result = Some(FALSE)

\* C6 witness: the lookup raised and the call returned false
C6_Witness ==
    /\ op = "test_connection" /\ pc = Returned
    /\ me = "raise"
    /\ result = Some(FALSE)

---------------------------------------------------------------------------
(* C7 *)

\* C7: when get_help_center_articles returns (the stream did not raise), the
\* list holds exactly min(limit, n) records, the i-th being the normalisation
\* of the i-th article the stream yielded, with type "article".
C7_FirstArticlesInOrder ==
    (op = "get_help_center_articles" /\ pc = Returned) =>
        /\ ~streamErr
        /\ Len(result[1]) = Min(limit, Len(up))
        /\ \A i \in 1 .. Len(result[1]) :
            /\ result[1][i] = ExpectedArticle(up[i])
            /\ result[1][i].type = "article"

\* C7 witness: limit 1 against a stream that yielded more than one article
C7_Witness ==
    /\ op = "get_help_center_articles" /\ pc = Returned
    /\ limit = 1
    /\ Len(up) > 1
    /\ Len(result[1]) = 1
    /\ result[1][1] = ExpectedArticle(up[1])

---------------------------------------------------------------------------
(* C8 *)

\* C8: in every record get_tickets collects and returns, and in the comments
\* list being built, the comments are the records of exactly the non-blank
\* comments the ticket's listing yielded, in the order yielded; no comment
\* with an absent, empty or whitespace-only body is among them.
C8_OnlyNonBlankComments ==
    op = "get_tickets" =>
        /\ \A i \in 1 .. Len(items) :
            /\ items[i].comments = ExpectedComments(up[i].yielded)
            /\ \A j \in 1 .. Len(items[i].comments) :
                \E k \in 1 .. Len(items[i].comments[j].body) :
                    ~IsSpace(items[i].comments[j].body[k])
        /\ pc = "comments" => comments = ExpectedComments(up[Len(up)].yielded)
        /\ pc = Returned => result[1] = items

\* C8 witness: a returned record whose ticket had a whitespace-only comment
\* and a comment with text, of which only the second is in the record
C8_Witness ==
    /\ op = "get_tickets" /\ pc = Returned
    /\ \E i \in 1 .. Len(result[1]) :
        /\ Len(up[i].yielded) = 2
        /\ \E j \in 1 .. 2 :
            /\ Truthy(up[i].yielded[j].body)
            /\ ~NonBlank(up[i].yielded[j])
        /\ Len(result[1][i].comments) = 1

---------------------------------------------------------------------------
(* C9 *)

\* C9: get_tickets makes no request to the ticket stream, no comment fetch
\* and awaits no pacing delay once limit tickets are collected: it never
\* pulls more than limit times, never lists comments more than limit times,
\* awaits a delay only after a multiple of 100 below limit, and a stream
\* error is only ever met with fewer than limit tickets collected.
C9_StopsAtLimit ==
    op = "get_tickets" =>
        /\ pulls <= limit
        /\ fetches <= limit
        /\ sleeps * PaceEvery < limit \/ sleeps = 0
        /\ streamErr => Len(items) < limit

---------------------------------------------------------------------------
(* C4 *)

\* C4: update_connector_last_indexed never raises to its caller; a call whose
\* select or commit raised has issued a rollback, has written nothing to the
\* store, and returns normally.
C4_UpdaterNeverRaises ==
    \A p \in Tasks :
        /\ upc[p] # Raised
        /\ (faults[p] \cap {"select", "commit"} # {} /\ upc[p] # "rollback") =>
            /\ upc[p] = Returned
            /\ rollbacks[p] = 1
            /\ Len(CommitsBy(p)) = 0

---------------------------------------------------------------------------
(* C5 *)

\* C5: a call whose select finds no connector for the identifier assigns no
\* timestamp, issues no commit and no rollback, writes nothing to the store,
\* and returns without error.
C5_MissingIdIsNoOp ==
    \A p \in Tasks :
        (uarg[p] \in ArgIds \ ConnectorIds /\ loaded[p] \notin {"unasked", "error"}) =>
            /\ loaded[p] = "missing"
            /\ upc[p] = Returned
            /\ stamped[p] = None /\ pending[p] = None
            /\ commits[p] = 0 /\ rollbacks[p] = 0
            /\ Len(CommitsBy(p)) = 0

\* C5 witness: a call for a missing identifier has returned
C5_Witness ==
    \E p \in Tasks :
        /\ uarg[p] \notin ConnectorIds
        /\ loaded[p] = "missing"
        /\ upc[p] = Returned

---------------------------------------------------------------------------
(* C10 *)

\* C10: however the calls interleave, every call that found its connector and
\* met no error returns after one commit of the timestamp it assigned, and
\* each stored row is its initial row with last_indexed_at replaced by the
\* timestamp of the last commit made on it (untouched if there was none).
C10_LastWriteWins ==
    /\ \A p \in Tasks :
        (loaded[p] = "found" /\ faults[p] = {} /\ upc[p] # "commit") =>
            /\ upc[p] = Returned
            /\ CommitsBy(p) = <<[task |-> p, id |-> uarg[p], ts |-> stamped[p][1]]>>
    /\ \A id \in ConnectorIds :
        LET log == CommitsOn(id) IN
        db[id] = [InitialDb[id] EXCEPT !.last_indexed_at =
                     IF Len(log) = 0 THEN InitialDb[id].last_indexed_at
                     ELSE Some(log[Len(log)].ts)]

\* C10 witness: both tasks updated the same connector without error, and the
\* one that committed last had assigned the older timestamp, which is stored
C10_Witness ==
    /\ \A p \in Tasks : upc[p] = Returned /\ faults[p] = {} /\ loaded[p] = "found"
    /\ uarg["A"] = uarg["B"]
    /\ Len(commitLog) = 2
    /\ commitLog[2].ts < commitLog[1].ts
    /\ db[uarg["A"]].last_indexed_at = Some(commitLog[2].ts)

====
